---------------------------- MODULE Spec2Model ----------------------------
(***************************************************************************)
(* Model of the Yin pitch estimator of src/index.mjs: the constructor and  *)
(* getPitch, with its three phases (_asf, the lag search and the parabolic *)
(* interpolation of _estimatePeriod).                                      *)
(*                                                                         *)
(* Numbers.  A JavaScript number is modelled as a pair <<n, d>>:           *)
(*   d > 0           the rational n/d in lowest terms,                     *)
(*   <<1,0>> <<-1,0>> +Infinity and -Infinity,                             *)
(*   <<0,0>>         NaN.                                                  *)
(* The arithmetic and the comparisons follow IEEE 754 on these values      *)
(* (NaN propagates, every comparison with NaN is false, x/0 is infinite,   *)
(* 0*Infinity is NaN).  Binary rounding is not modelled: the samples are   *)
(* small integers, so the sums of _asf are exact, and two distinct stored  *)
(* quotients differ by far more than a binary32 unit, so every comparison  *)
(* the code makes has the outcome it has on the exact values.  Zero is     *)
(* always +0 here: the only zero divisors are sums of squares and          *)
(* differences of equal values.                                            *)
(* Values that are not numbers: Undefined (an omitted argument, a read     *)
(* outside a typed array), Null and NotANumberType (an argument of another *)
(* type, such as a string).                                                *)
(***************************************************************************)
EXTENDS Integers, Sequences, FiniteSets

\* Largest frame length (constructor argument and length of a frame) tried.
MaxLen == 8
\* Samples are the integers 0..MaxSample.
MaxSample == 1
\* Half the length of the one longer frame length, tried with square waves only.
WaveHalf == 10

NaN == <<0, 0>>
PosInf == <<1, 0>>
NegInf == <<-1, 0>>
Undefined == <<0, -1>>
Null == <<0, -2>>
NotANumberType == <<0, -3>>

Zero == <<0, 1>>
One == <<1, 1>>
MinusOne == <<-1, 1>>
Num(n) == <<n, 1>>

DEFAULT_THRESHOLD == <<1, 5>>

Abs(n) == IF n < 0 THEN -n ELSE n
Sign(n) == IF n > 0 THEN 1 ELSE IF n < 0 THEN -1 ELSE 0
Max(a, b) == IF a > b THEN a ELSE b

RECURSIVE GCD(_, _)
GCD(a, b) == IF b = 0 THEN a ELSE GCD(b, a % b)

\* n/d with d >= 0, in lowest terms; d = 0 gives an infinity or NaN.
Norm(n, d) ==
    IF d = 0 THEN <<Sign(n), 0>>
    ELSE LET g == GCD(Abs(n), d) IN <<n \div g, d \div g>>

\* ToNumber of a value read where a number is expected.
ToNumber(v) == IF v[2] < 0 THEN (IF v = Null THEN Zero ELSE NaN) ELSE v

IsNaN(v) == v = NaN
IsFinite(v) == v[2] > 0
TypeofNumber(v) == v[2] >= 0

AddN(a, b) ==
    IF a[2] = 1 /\ b[2] = 1 THEN <<a[1] + b[1], 1>>
    ELSE IF a[2] = 0 /\ b[2] = 0 THEN (IF a = b THEN a ELSE NaN)
    ELSE Norm(a[1] * b[2] + b[1] * a[2], a[2] * b[2])
Neg(a) == <<-a[1], a[2]>>
Add(x, y) == AddN(ToNumber(x), ToNumber(y))
Sub(x, y) == AddN(ToNumber(x), Neg(ToNumber(y)))
MulN(a, b) ==
    IF a[2] = 1 /\ b[2] = 1 THEN <<a[1] * b[1], 1>>
    ELSE Norm(a[1] * b[1], a[2] * b[2])
Mul(x, y) == MulN(ToNumber(x), ToNumber(y))
Inv(a) ==
    IF a[1] > 0 THEN <<a[2], a[1]>>
    ELSE IF a[1] < 0 THEN <<-a[2], -a[1]>>
    ELSE IF a[2] > 0 THEN PosInf ELSE NaN
Div(x, y) == MulN(ToNumber(x), Inv(ToNumber(y)))
Square(x) == Mul(x, x)

LtN(a, b) ==
    IF IsNaN(a) \/ IsNaN(b) THEN FALSE
    ELSE IF a[2] = 0 /\ b[2] = 0 THEN a[1] < b[1]
    ELSE a[1] * b[2] < b[1] * a[2]
EqN(a, b) == ~IsNaN(a) /\ ~IsNaN(b) /\ a = b
Lt(x, y) == LtN(ToNumber(x), ToNumber(y))
Gt(x, y) == LtN(ToNumber(y), ToNumber(x))
Le(x, y) == Lt(x, y) \/ EqN(ToNumber(x), ToNumber(y))
Ge(x, y) == Gt(x, y) \/ EqN(ToNumber(x), ToNumber(y))
StrictEq(x, y) == IF TypeofNumber(x) /\ TypeofNumber(y) THEN EqN(x, y) ELSE x = y

\* Number.isSafeInteger: a finite integer of magnitude below 2^53.  Every
\* integer of the model is far below 2^53; an unsafe magnitude is
\* represented by PosInf.
IsSafeInteger(v) == TypeofNumber(v) /\ v[2] = 1


(***************************************************************************)
(* Typed arrays.  A Float32Array of length n is a function on 0..n-1.  A   *)
(* read outside the array yields undefined and a write outside it is       *)
(* ignored.  An input frame is a sequence of integer samples; element i of *)
(* the JavaScript array is element i+1 of the sequence.                    *)
(***************************************************************************)
Float32Array(n) == [i \in 0..(n - 1) |-> Zero]
YinLength(buf) == Cardinality(DOMAIN buf)
ReadYin(buf, i) == IF i \in DOMAIN buf THEN buf[i] ELSE Undefined
YinStoreSkipNaN(buf, i, v) ==
    IF i \in DOMAIN buf /\ ~IsNaN(v) THEN [buf EXCEPT ![i] = v] ELSE buf
YinStore(buf, i, v) == IF i \in DOMAIN buf THEN [buf EXCEPT ![i] = v] ELSE buf
DataAt(d, i) == IF i \in 0..(Len(d) - 1) THEN Num(d[i + 1]) ELSE Undefined

(***************************************************************************)
(* The constructor.  It yields what it throws ("none" when it returns) and *)
(* the fields of the instance.                                             *)
(***************************************************************************)
BitAnd1(n) == n % 2

Thrown(kind) ==
    [thrown |-> kind, bufferLength |-> 0, sampleRate |-> Undefined,
     threshold |-> Undefined, yinBuffer |-> Float32Array(0)]

constructor(bufferLength, sampleRate, thresholdArg) ==
    LET threshold ==
            IF thresholdArg = Undefined THEN DEFAULT_THRESHOLD ELSE thresholdArg
    IN  IF BitAnd1(bufferLength) # 0 THEN Thrown("TypeError")
        ELSE IF Le(sampleRate, Zero) \/ ~IsSafeInteger(sampleRate)
        THEN Thrown("TypeError")
        ELSE IF ~TypeofNumber(threshold) \/ Le(threshold, Zero) \/ Ge(threshold, One)
        THEN Thrown("TypeError")
        ELSE IF bufferLength \div 2 < 0 THEN Thrown("RangeError")
        ELSE [thrown |-> "none", bufferLength |-> bufferLength,
              sampleRate |-> sampleRate, threshold |-> threshold,
              yinBuffer |-> Float32Array(bufferLength \div 2)]

(***************************************************************************)
(* Phase A: _asf, the cumulative mean normalized difference function.      *)
(***************************************************************************)
RECURSIVE InnerSum(_, _, _, _, _)
InnerSum(d, tau, index, n, sum) ==
    IF index < n
    THEN InnerSum(d, tau, index + 1, n,
                  Add(sum, Square(Sub(DataAt(d, index), DataAt(d, index + tau)))))
    ELSE sum

RECURSIVE AsfLoop(_, _, _, _)
AsfLoop(buf, d, tau, total) ==
    IF tau < YinLength(buf)
    THEN LET sum == InnerSum(d, tau, 0, YinLength(buf), Zero)
             newTotal == Add(total, sum)
         IN  AsfLoop(YinStore(buf, tau, Mul(sum, Div(Num(tau), newTotal))),
                     d, tau + 1, newTotal)
    ELSE buf

_asf(buf, d) == AsfLoop(YinStore(buf, 0, One), d, 1, Zero)

\* The indices of the input frame that _asf reads in a buffer of length n.
AsfDataReads(n) ==
    UNION {{index, index + tau} : index \in 0..(n - 1), tau \in 1..(n - 1)}

(***************************************************************************)
(* Phases B and C: _estimatePeriod.  The loops also collect the indices of *)
(* the scratch buffer they read and count their iterations.                *)
(***************************************************************************)
LagInRangeInclusive(tau, maxLag) == tau <= maxLag
LagInRange(tau, maxLag) == tau < maxLag

AboveThresholdStrict(v, threshold) == Gt(v, threshold)
AboveThreshold(v, threshold) == Ge(v, threshold)

Descends(next, cur) == Lt(next, cur)

RECURSIVE ThresholdLoop(_, _, _, _, _, _)
ThresholdLoop(buf, tau, maxLag, threshold, reads, steps) ==
    IF LagInRange(tau, maxLag)
    THEN IF AboveThreshold(ReadYin(buf, tau), threshold)
         THEN ThresholdLoop(buf, tau + 1, maxLag, threshold,
                            reads \cup {tau}, steps + 1)
         ELSE [tau |-> tau, reads |-> reads \cup {tau}, steps |-> steps]
    ELSE [tau |-> tau, reads |-> reads, steps |-> steps]

RECURSIVE DescentLoop(_, _, _, _, _)
DescentLoop(buf, tau, maxLag, reads, steps) ==
    IF LagInRange(tau, maxLag)
    THEN IF Descends(ReadYin(buf, tau + 1), ReadYin(buf, tau))
         THEN DescentLoop(buf, tau + 1, maxLag,
                          reads \cup {tau, tau + 1}, steps + 1)
         ELSE [tau |-> tau, reads |-> reads \cup {tau, tau + 1}, steps |-> steps]
    ELSE [tau |-> tau, reads |-> reads, steps |-> steps]

_estimatePeriod(buf, threshold) ==
    LET maxLag == YinLength(buf) - 1
        first == ThresholdLoop(buf, 2, maxLag, threshold, {}, 0)
        last == DescentLoop(buf, first.tau, maxLag, first.reads, first.steps)
        tau == last.tau
        delta == Sub(ReadYin(buf, tau - 1), ReadYin(buf, tau + 1))
        den == Add(Sub(ReadYin(buf, tau + 1), Mul(Num(2), ReadYin(buf, tau))),
                   ReadYin(buf, tau - 1))
    IN  [period |-> IF StrictEq(den, Zero) THEN Num(tau)
                    ELSE Add(Num(tau), Div(delta, Mul(Num(2), den))),
         tau |-> tau, crossing |-> first.tau, steps |-> last.steps,
         reads |-> last.reads \cup {tau - 1, tau, tau + 1}]

(***************************************************************************)
(* getPitch.  It yields what it throws, the scratch buffer it leaves, the  *)
(* value it returns and the trace of its lag search.                       *)
(***************************************************************************)
LengthMismatchLonger(d, bufferLength) == Len(d) > bufferLength
LengthMismatch(d, bufferLength) == Len(d) # bufferLength

getPitch(buf, bufferLength, sampleRate, threshold, d) ==
    IF LengthMismatch(d, bufferLength)
    THEN [thrown |-> "TypeError", yinBuffer |-> buf, ret |-> Undefined,
          tau |-> 0, crossing |-> 0, steps |-> 0,
          yinReads |-> {}, dataReads |-> {}]
    ELSE LET yin == _asf(buf, d)
             e == _estimatePeriod(yin, threshold)
         IN  [thrown |-> "none", yinBuffer |-> yin,
              ret |-> IF ~StrictEq(e.period, Null)
                      THEN Div(sampleRate, e.period) ELSE MinusOne,
              tau |-> e.tau, crossing |-> e.crossing, steps |-> e.steps,
              yinReads |-> e.reads, dataReads |-> AsfDataReads(YinLength(yin))]

(***************************************************************************)
(* The state machine: one call of the constructor, then, when it returned  *)
(* an instance, any sequence of getPitch calls on that instance.           *)
(***************************************************************************)
VARIABLES
    instance,       \* TRUE once the constructor has returned an instance
    _bufferLength, _sampleRate, _threshold, _yinBuffer,   \* its fields
    op,             \* the last operation: "none", "constructor", "getPitch"
    args,           \* the arguments of the last constructor call
    data,           \* the argument of the last getPitch call
    thrown,         \* what the last operation threw, "none" if it returned
    ret,            \* what the last getPitch call returned
    tau, crossing, steps,   \* the lag search of the last getPitch call
    yinReads, dataReads,    \* the indices the last getPitch call read
    reused          \* TRUE when an earlier accepted getPitch call had
                    \* written the scratch buffer before the last call

vars == <<instance, _bufferLength, _sampleRate, _threshold, _yinBuffer, op,
          args, data, thrown, ret, tau, crossing, steps, yinReads, dataReads,
          reused>>

Samples == 0..MaxSample
WaveLen == 2 * WaveHalf
BufferLengths == (-2..MaxLen) \cup {WaveLen}
SampleRates == {Num(2), Zero, Num(-1), <<1, 2>>, PosInf, NaN}
Thresholds ==
    {Undefined, <<2, 3>>, Zero, One, <<-1, 5>>, <<3, 2>>, NaN, NotANumberType}

\* The frames offered to getPitch.  The first call on an instance is offered
\* every frame of the configured length (up to MaxLen); every call is offered
\* the square waves of the configured length (period 1 is the silent frame)
\* and a silent frame of every length up to MaxLen.
Frames(n) == [1..n -> Samples]
SquareWave(n, p) == [i \in 1..n |-> IF 2 * ((i - 1) % p) < p - 1 THEN 1 ELSE 0]
Waves(n) == IF n > 0 THEN {SquareWave(n, p) : p \in 1..n} ELSE {}
ZeroFrames == {[i \in 1..n |-> 0] : n \in 0..MaxLen}
Inputs ==
    (IF op = "constructor" /\ _bufferLength \in 0..MaxLen
     THEN Frames(_bufferLength) ELSE {})
    \cup Waves(_bufferLength) \cup ZeroFrames

Init ==
    /\ instance = FALSE
    /\ _bufferLength = 0
    /\ _sampleRate = Undefined
    /\ _threshold = Undefined
    /\ _yinBuffer = Float32Array(0)
    /\ op = "none"
    /\ args = <<0, Undefined, Undefined>>
    /\ data = <<>>
    /\ thrown = "none"
    /\ ret = Undefined
    /\ tau = 0
    /\ crossing = 0
    /\ steps = 0
    /\ yinReads = {}
    /\ dataReads = {}
    /\ reused = FALSE

Construct(bufferLength, sampleRate, thresholdArg) ==
    /\ op = "none"
    /\ \E r \in {constructor(bufferLength, sampleRate, thresholdArg)} :
           /\ instance' = (r.thrown = "none")
           /\ _bufferLength' = r.bufferLength
           /\ _sampleRate' = r.sampleRate
           /\ _threshold' = r.threshold
           /\ _yinBuffer' = r.yinBuffer
           /\ thrown' = r.thrown
    /\ op' = "constructor"
    /\ args' = <<bufferLength, sampleRate, thresholdArg>>
    /\ UNCHANGED <<data, ret, tau, crossing, steps, yinReads, dataReads, reused>>

GetPitch(d) ==
    /\ instance
    /\ \E r \in {getPitch(_yinBuffer, _bufferLength, _sampleRate, _threshold, d)} :
           /\ _yinBuffer' = r.yinBuffer
           /\ thrown' = r.thrown
           /\ ret' = r.ret
           /\ tau' = r.tau
           /\ crossing' = r.crossing
           /\ steps' = r.steps
           /\ yinReads' = r.yinReads
           /\ dataReads' = r.dataReads
    /\ reused' = (reused \/ (op = "getPitch" /\ thrown = "none"))
    /\ op' = "getPitch"
    /\ data' = d
    /\ UNCHANGED <<instance, _bufferLength, _sampleRate, _threshold, args>>

Next ==
    \/ \E bufferLength \in BufferLengths, sampleRate \in SampleRates,
          thresholdArg \in Thresholds :
            Construct(bufferLength, sampleRate, thresholdArg)
    \/ \E d \in Inputs : GetPitch(d)

Spec == Init /\ [][Next]_vars

(***************************************************************************)
(* Vocabulary of the properties.                                           *)
(***************************************************************************)
Constructed == op = "constructor"
Called == op = "getPitch"
Accepted == Called /\ thrown = "none"
Rejected == Called /\ thrown = "TypeError"

L == YinLength(_yinBuffer)
maxLag == L - 1
Yin(i) == ReadYin(_yinBuffer, i)

\* The arguments the documented contract allows.
PositiveEven(n) == n > 0 /\ n % 2 = 0
ValidSampleRate(v) == IsFinite(v) /\ v[2] = 1 /\ v[1] > 0
RealInUnitInterval(v) == IsFinite(v) /\ 0 < v[1] /\ v[1] < v[2]
ValidThresholdArg(v) == v = Undefined \/ RealInUnitInterval(v)

\* An instance the documented contract allows.
ValidConfig ==
    /\ instance
    /\ PositiveEven(_bufferLength)
    /\ ValidSampleRate(_sampleRate)
    /\ RealInUnitInterval(_threshold)

FinitePositive(v) == IsFinite(v) /\ v[1] > 0

\* C1: the constructor throws a TypeError and yields no instance for every
\* frame length that is odd, zero or negative, and succeeds for every
\* positive even frame length given a valid sample rate and threshold.
C1_FrameLengthValidated ==
    (Constructed /\ ValidSampleRate(args[2]) /\ ValidThresholdArg(args[3]))
        => IF PositiveEven(args[1])
           THEN instance /\ thrown = "none"
           ELSE ~instance /\ thrown = "TypeError"

\* C2: with a positive even frame length, the constructor throws a
\* TypeError whenever the sample rate is not a positive safe integer or the
\* threshold is not a real number strictly between 0 and 1, and an omitted
\* threshold is stored as 0.2.
C2_RateAndThresholdValidated ==
    (Constructed /\ PositiveEven(args[1]))
        => /\ (~ValidSampleRate(args[2]) \/ ~ValidThresholdArg(args[3]))
                => (~instance /\ thrown = "TypeError")
           /\ (instance /\ args[3] = Undefined) => _threshold = DEFAULT_THRESHOLD

\* C3: a getPitch call whose argument has another length than the
\* configured frame length throws a TypeError and leaves the scratch buffer
\* and the configuration exactly as they were.
C3_MismatchRejectedBeforeAsf ==
    [][(op' = "getPitch" /\ Len(data') # _bufferLength)
          => /\ thrown' = "TypeError"
             /\ _yinBuffer' = _yinBuffer
             /\ UNCHANGED <<instance, _bufferLength, _sampleRate, _threshold>>]_vars

\* C3 happens: a call is rejected on a scratch buffer that an earlier
\* accepted call has written.
C3_Witness ==
    /\ Rejected
    /\ Len(data) # _bufferLength
    /\ L > 1
    /\ _yinBuffer # Float32Array(L)

\* C4: an accepted getPitch call returns a finite positive frequency or -1.
C4_FiniteFrequencyOrSentinel ==
    (Accepted /\ ValidConfig) => (ret = MinusOne \/ FinitePositive(ret))

\* C5: when no lag of the search range 2..maxLag has a value below the
\* threshold, getPitch returns -1.
C5_SentinelWhenNoLagBelowThreshold ==
    (/\ Accepted
     /\ ValidConfig
     /\ maxLag >= 2
     /\ \A t \in 2..maxLag : ~Lt(Yin(t), _threshold))
        => ret = MinusOne

\* C6: after an accepted getPitch call (the scratch buffer is as _asf left
\* it), element 0 of the scratch buffer exists and is 1.
C6_LagZeroIsOne ==
    Accepted => (0 \in DOMAIN _yinBuffer /\ _yinBuffer[0] = One)

\* C7: whatever calls came before, an accepted getPitch call returns what a
\* freshly constructed estimator of the same configuration returns for the
\* same frame, and every element of the scratch buffer that the call read
\* had been written by _asf in that call.
Poison == <<0, -4>>
C7_NoCrossCallLeak ==
    Accepted =>
        /\ ret = getPitch(Float32Array(_bufferLength \div 2), _bufferLength,
                          _sampleRate, _threshold, data).ret
        /\ \A i \in yinReads \cap DOMAIN _yinBuffer :
               _asf([j \in DOMAIN _yinBuffer |-> Poison], data)[i] # Poison

\* C7 happens: an accepted call on a scratch buffer that an earlier accepted
\* call has written, returning a frequency.
C7_Witness ==
    /\ Accepted
    /\ reused
    /\ ValidConfig
    /\ FinitePositive(ret)
    /\ yinReads # {}

\* C8, as claimed: the lag search ends with 2 <= tau <= maxLag.
C8_LagWithinSearchRange ==
    (Accepted /\ ValidConfig) => (2 <= tau /\ tau <= maxLag)

\* C8, amended: the lag search ends after tau - 2 iterations, at most
\* max(0, maxLag - 2), with 2 <= tau <= max(2, maxLag).
C8_LagWithinWidenedRange ==
    Accepted =>
        /\ 2 <= tau
        /\ tau <= Max(2, maxLag)
        /\ steps = tau - 2

\* C8 happens: a search that advanced and stopped inside the range.
C8_Witness ==
    /\ Accepted
    /\ ValidConfig
    /\ 2 < tau
    /\ tau < maxLag

\* The parts of C9 that the claim and its amendment share: the first loop
\* passed only lags at or above the threshold, and the values decrease
\* strictly from where it stopped (crossing) to the final lag.
SkippedAndDescended ==
    /\ 2 <= crossing
    /\ crossing <= tau
    /\ \A t \in 2..(crossing - 1) : Ge(Yin(t), _threshold)
    /\ \A t \in crossing..(tau - 1) : Lt(Yin(t + 1), Yin(t))

\* C9, as claimed: the first loop stops at the first lag below the threshold
\* or at maxLag, and the search ends at maxLag or where the next value is
\* greater than or equal to the value at tau.
C9_LocalMinimumAfterCrossing ==
    (Accepted /\ ValidConfig) =>
        /\ SkippedAndDescended
        /\ (crossing = maxLag \/ Lt(Yin(crossing), _threshold))
        /\ (tau = maxLag \/ Ge(Yin(tau + 1), Yin(tau)))

\* C9, amended: the first loop stops at the first lag whose value is not
\* greater than or equal to the threshold or at a lag not below maxLag, and
\* the search ends at a lag not below maxLag or where the next value is not
\* smaller than the value at tau.
C9_StopsWhereComparisonFails ==
    Accepted =>
        /\ SkippedAndDescended
        /\ (crossing >= maxLag \/ ~Ge(Yin(crossing), _threshold))
        /\ (tau >= maxLag \/ ~Lt(Yin(tau + 1), Yin(tau)))

\* C9 happens: lags were skipped, a lag below the threshold was found, the
\* search descended from it and stopped at a local minimum inside the range.
C9_Witness ==
    /\ Accepted
    /\ ValidConfig
    /\ 2 < crossing
    /\ crossing < tau
    /\ tau < maxLag
    /\ Lt(Yin(crossing), _threshold)
    /\ Ge(Yin(tau + 1), Yin(tau))

\* C10: an accepted getPitch call reads the input frame only at indices
\* 0..frameLength-1 and the scratch buffer only at indices 0..frameLength/2-1.
C10_ReadsInBounds ==
    (Accepted /\ ValidConfig) =>
        /\ dataReads \subseteq 0..(Len(data) - 1)
        /\ yinReads \subseteq DOMAIN _yinBuffer

=============================================================================
